---- MODULE Spec2Model ----
(***************************************************************************)
(* A model of rulin.py, the dashboard of "The Scholars" spatial analysis:  *)
(* load_data (three CSV files, group-and-sum, three left joins), the       *)
(* script's stop on a load error, and the three modules that query the     *)
(* loaded tables (GIS map data, character-place graph, close reading).     *)
(*                                                                         *)
(* A text cell is a sequence of tokens; the token " " is whitespace and    *)
(* every other token is a run of non-blank characters, so str.strip() is   *)
(* computed on the value.  A cell pandas read as missing is NaN.           *)
(***************************************************************************)
EXTENDS Integers, Sequences, FiniteSets, TLC

\* files: the three CSV files on disk.  pc: the script's position.  df_* and
\* error_msg: the module-level results of load_data().  page: what the module
\* the user selected computed in the last run of the script.
VARIABLES files, pc, df_places, df_freq_chapter, df_freq_total, df_context,
          error_msg, page

vars == <<files, pc, df_places, df_freq_chapter, df_freq_total, df_context,
          error_msg, page>>

(***************************************************************************)
(* Values                                                                  *)
(***************************************************************************)
\* Python's None.
None == [none |-> TRUE]

\* A pandas DataFrame: its rows in index order.
DataFrame(rows) == [rows |-> rows]

\* A missing cell (pandas NaN) and a present one.
NaN == [na |-> TRUE]

Val(v) == [na |-> FALSE, v |-> v]

notna(c) == ~c.na

\* Text values; the first characters of the tokens give their order.
Blank == <<" ">>

Nanjing == <<"Nanjing">>

Hangzhou == <<"Hangzhou">>

FanJin == <<"Fan", " ", "Jin">>

ZhouJin == <<"Zhou", " ", "Jin">>

PadNan == <<" ", "nan">>

\* ord() of a token's first character.
TokenOrd(t) ==
    CASE t = " " -> 32
      [] t = "Fan" -> 70
      [] t = "Hangzhou" -> 72
      [] t = "Jin" -> 74
      [] t = "Nanjing" -> 78
      [] t = "Zhou" -> 90
      [] t = "nan" -> 110

\* Python's s < t on str: lexicographic, a proper prefix is smaller.
RECURSIVE StrLess(_, _)
StrLess(s, t) ==
    IF t = <<>> THEN FALSE
    ELSE IF s = <<>> THEN TRUE
    ELSE IF Head(s) = Head(t) THEN StrLess(Tail(s), Tail(t))
    ELSE TokenOrd(Head(s)) < TokenOrd(Head(t))

RECURSIVE lstrip(_)
lstrip(s) == IF s # <<>> /\ Head(s) = " " THEN lstrip(Tail(s)) ELSE s

RECURSIVE rstrip(_)
rstrip(s) ==
    IF s # <<>> /\ s[Len(s)] = " " THEN rstrip(SubSeq(s, 1, Len(s) - 1)) ELSE s

\* str.strip()
strip(s) == lstrip(rstrip(s))

\* str(x) of a cell: a missing cell prints as "nan".
str(c) == IF c.na THEN <<"nan">> ELSE c.v

(***************************************************************************)
(* Sequence helpers                                                        *)
(***************************************************************************)
\* df[mask]: the rows whose mask is true, in order.
RECURSIVE SelectRows(_, _)
SelectRows(df, keep) ==
    IF df = <<>> THEN <<>>
    ELSE IF keep[1] THEN <<Head(df)>> \o SelectRows(Tail(df), Tail(keep))
    ELSE SelectRows(Tail(df), Tail(keep))

\* df[col].sum() of a numeric column.
RECURSIVE SumCol(_, _)
SumCol(df, col) == IF df = <<>> THEN 0 ELSE Head(df)[col] + SumCol(Tail(df), col)

RECURSIVE Concat(_)
Concat(ss) == IF ss = <<>> THEN <<>> ELSE Head(ss) \o Concat(Tail(ss))

Range(s) == {s[i] : i \in 1..Len(s)}

\* All sequences over S of length at most n.
SeqsUpTo(S, n) == UNION {[1..k -> S] : k \in 0..n}

(***************************************************************************)
(* The three CSV files                                                     *)
(***************************************************************************)
\* A file is [status, place_header, rows]: whether it can be read and parsed,
\* the header text of its place column as written, and its data rows.
PlaceCol == <<"place">>

\* pd.read_csv: the exception it raises, or None.
read_csv(name, f) ==
    CASE f.status = "ok" -> None
      [] f.status = "missing" -> [exc |-> "FileNotFoundError", arg |-> name]
      [] f.status = "unreadable" -> [exc |-> "UnicodeDecodeError", arg |-> name]
      [] f.status = "unparsable" -> [exc |-> "ParserError", arg |-> name]

\* df.columns.str.strip(), for the place column's header.
clean_column(f) == strip(f.place_header)

\* Whether df['place'] exists once the headers are cleaned.
has_place(f) == clean_column(f) = PlaceCol

\* The least text of a non-empty set of texts.
MinStr(S) == CHOOSE s \in S : \A t \in S \ {s} : StrLess(s, t)

RECURSIVE SortStrs(_)
SortStrs(S) ==
    IF S = {} THEN <<>> ELSE <<MinStr(S)>> \o SortStrs(S \ {MinStr(S)})

\* The group keys of groupby('place'): the present place names, ascending
\* (sort=True); rows whose key is missing belong to no group (dropna=True).
group_keys(df) == SortStrs({df[i].place.v : i \in {j \in 1..Len(df) : notna(df[j].place)}})

RowsOfPlace(df, p) == SelectRows(df, [i \in 1..Len(df) |-> df[i].place = Val(p)])

\* freq_chapter.groupby('place', as_index=False)[['count', 'per_1k_chars']].sum()
groupby_sum(df) ==
    LET keys == group_keys(df)
    IN  [i \in 1..Len(keys) |->
            [place |-> Val(keys[i]),
             count |-> SumCol(RowsOfPlace(df, keys[i]), "count"),
             per_1k_chars |-> SumCol(RowsOfPlace(df, keys[i]), "per_1k_chars")]]

\* One left row joined with one place row: the left columns, then lat and lon.
JoinRow(l, lat, lon) ==
    [k \in DOMAIN l \cup {"lat", "lon"} |->
        IF k \in DOMAIN l THEN l[k] ELSE IF k = "lat" THEN lat ELSE lon]

\* The rows one left row yields: one per place row with an equal key, in the
\* place table's order, or one row with missing coordinates when none matches.
MergeRow(l, places) ==
    LET hits == SelectRows(places, [i \in 1..Len(places) |-> places[i].place = l.place])
    IN  IF hits = <<>> THEN <<JoinRow(l, NaN, NaN)>>
        ELSE [i \in 1..Len(hits) |-> JoinRow(l, hits[i].lat, hits[i].lon)]

\* Mutant of merge: an inner join, which drops the rows that match nothing.
merge_inner(left, places) ==
    Concat([i \in 1..Len(left) |->
        IF \E j \in 1..Len(places) : places[j].place = left[i].place
        THEN MergeRow(left[i], places) ELSE <<>>])

\* left.merge(places, on='place', how='left')
merge(left, places) == Concat([i \in 1..Len(left) |-> MergeRow(left[i], places)])

\* The exception load_data's try block raises, or None: the three reads in
\* order, then the KeyError of groupby('place') or of a merge on 'place'.
load_error(fs) ==
    IF read_csv("places.csv", fs.places) # None THEN read_csv("places.csv", fs.places)
    ELSE IF read_csv("place_freq.csv", fs.freq) # None THEN read_csv("place_freq.csv", fs.freq)
    ELSE IF read_csv("place_analysis_ch01-20_cha_act.csv", fs.context) # None
         THEN read_csv("place_analysis_ch01-20_cha_act.csv", fs.context)
    ELSE IF ~(has_place(fs.freq) /\ has_place(fs.places) /\ has_place(fs.context))
         THEN [exc |-> "KeyError", arg |-> "place"]
    ELSE None

\* Mutant of load_data: on an error it still returns the place table when that
\* file was read.
load_data_partial(fs) ==
    IF load_error(fs) # None
    THEN [places |-> IF fs.places.status = "ok" THEN DataFrame(fs.places.rows) ELSE None,
          freq_chapter |-> None, freq_total |-> None,
          context |-> None, error |-> load_error(fs)]
    ELSE [places |-> DataFrame(fs.places.rows),
          freq_chapter |-> DataFrame(merge(fs.freq.rows, fs.places.rows)),
          freq_total |-> DataFrame(merge(groupby_sum(fs.freq.rows), fs.places.rows)),
          context |-> DataFrame(merge(fs.context.rows, fs.places.rows)),
          error |-> None]

\* load_data(): (places, freq_chapter, freq_total, context, error message).
load_data(fs) ==
    IF load_error(fs) # None
    THEN [places |-> None, freq_chapter |-> None, freq_total |-> None,
          context |-> None, error |-> load_error(fs)]
    ELSE [places |-> DataFrame(fs.places.rows),
          freq_chapter |-> DataFrame(merge(fs.freq.rows, fs.places.rows)),
          freq_total |-> DataFrame(merge(groupby_sum(fs.freq.rows), fs.places.rows)),
          context |-> DataFrame(merge(fs.context.rows, fs.places.rows)),
          error |-> None]

(***************************************************************************)
(* Module 1: GIS Spatial Analysis                                          *)
(***************************************************************************)
\* Mutant of dropna_coords: dropna(how='all'), which keeps a row that lacks
\* only one coordinate.
dropna_coords_all(df) ==
    SelectRows(df, [i \in 1..Len(df) |-> notna(df[i].lat) \/ notna(df[i].lon)])

\* df.dropna(subset=['lat', 'lon'])
dropna_coords(df) ==
    SelectRows(df, [i \in 1..Len(df) |-> notna(df[i].lat) /\ notna(df[i].lon)])

\* Mutant of idxmax: the last position holding the largest count.
idxmax_last(df) ==
    CHOOSE i \in 1..Len(df) :
        /\ \A j \in 1..Len(df) : df[j].count <= df[i].count
        /\ \A j \in (i + 1)..Len(df) : df[j].count < df[i].count

\* df['count'].idxmax(): the first position holding the largest count.
idxmax(df) ==
    CHOOSE i \in 1..Len(df) :
        /\ \A j \in 1..Len(df) : df[j].count <= df[i].count
        /\ \A j \in 1..(i - 1) : df[j].count < df[i].count

\* The "Total Overview" branch: map data, "Total Locations", "Top Hub".
total_overview(freq_total) ==
    LET map_data == dropna_coords(freq_total)
    IN  [analysis_mode |-> "1. GIS Spatial Analysis",
         view_mode |-> "Total Overview",
         map_data |-> map_data,
         n_locations |-> Len(map_data),
         top_place |-> IF map_data # <<>> THEN map_data[idxmax(map_data)].place
                       ELSE None]

RECURSIVE SortInts(_)
SortInts(S) ==
    IF S = {} THEN <<>>
    ELSE LET m == CHOOSE x \in S : \A y \in S : x <= y
         IN  <<m>> \o SortInts(S \ {m})

\* groupby('chapter')['count'].sum(), as chapter -> sum over the whole table.
chap_summary(df) ==
    [c \in {df[i].chapter : i \in 1..Len(df)} |->
        SumCol(SelectRows(df, [i \in 1..Len(df) |-> df[i].chapter = c]), "count")]

\* sorted(chap_summary[chap_summary['count'] > 0]['chapter'].unique())
valid_chapters(df) ==
    SortInts({c \in DOMAIN chap_summary(df) : chap_summary(df)[c] > 0})

\* Mutant of chapter_query: count >= 0 in place of count > 0.
chapter_query_ge(df, c) ==
    LET of_chap == SelectRows(df, [i \in 1..Len(df) |-> df[i].chapter = c])
    IN  dropna_coords(SelectRows(of_chap, [i \in 1..Len(of_chap) |-> of_chap[i].count >= 0]))

\* The map data of one chapter: its rows with a positive count and coordinates.
chapter_query(df, c) ==
    LET of_chap == SelectRows(df, [i \in 1..Len(df) |-> df[i].chapter = c])
    IN  dropna_coords(SelectRows(of_chap, [i \in 1..Len(of_chap) |-> of_chap[i].count > 0]))

\* The "Chapter Timeline" branch with the slider at selected_chap.
chapter_timeline(freq_chapter, selected_chap) ==
    LET map_data == chapter_query(freq_chapter, selected_chap)
    IN  [analysis_mode |-> "1. GIS Spatial Analysis",
         view_mode |-> "Chapter Timeline",
         valid_chapters |-> valid_chapters(freq_chapter),
         warning |-> FALSE,
         selected_chap |-> selected_chap,
         map_data |-> map_data,
         top_in_chap |-> IF map_data # <<>> THEN map_data[idxmax(map_data)].place
                         ELSE None]

\* The same branch when no chapter is active: a warning and an empty map.
no_chapters(freq_chapter) ==
    [analysis_mode |-> "1. GIS Spatial Analysis",
     view_mode |-> "Chapter Timeline",
     valid_chapters |-> valid_chapters(freq_chapter),
     warning |-> TRUE,
     map_data |-> <<>>]

(***************************************************************************)
(* Module 2: Network Analysis                                              *)
(***************************************************************************)
EmptyGraph == [nodes |-> {}, edges |-> {}]

\* nx.Graph.add_edge(u, v): undirected, one edge per pair of end points.
add_edge(g, u, v) == [nodes |-> g.nodes \cup {u, v}, edges |-> g.edges \cup {{u, v}}]

\* Mutant of add_row: the secondary character is linked only when the primary
\* one was not (elif in place of if).
add_row_elif(g, row) ==
    LET char1 == strip(str(row.Character1))
        place == strip(str(row.place))
        char2 == strip(str(row.Character2))
    IN  IF char1 # <<>> /\ place # <<>> /\ char1 # <<"nan">>
        THEN add_edge(g, char1, place)
        ELSE IF notna(row.Character2) /\ char2 # <<>> /\ char2 # <<"nan">>
        THEN add_edge(g, char2, place) ELSE g

\* One pass of the loop body over a row of valid_links.
add_row(g, row) ==
    LET char1 == strip(str(row.Character1))
        place == strip(str(row.place))
        g1 == IF char1 # <<>> /\ place # <<>> /\ char1 # <<"nan">>
              THEN add_edge(g, char1, place) ELSE g
        char2 == strip(str(row.Character2))
    IN  IF notna(row.Character2) /\ char2 # <<>> /\ char2 # <<"nan">>
        THEN add_edge(g1, char2, place) ELSE g1

RECURSIVE add_rows(_, _)
add_rows(g, rows) == IF rows = <<>> THEN g ELSE add_rows(add_row(g, Head(rows)), Tail(rows))

\* df_context.dropna(subset=['Character1', 'place'])
valid_links(context) ==
    SelectRows(context, [i \in 1..Len(context) |->
        notna(context[i].Character1) /\ notna(context[i].place)])

build_graph(context) == add_rows(EmptyGraph, valid_links(context))

network_analysis(context) ==
    LET g == build_graph(context)
    IN  [analysis_mode |-> "2. Network Analysis", G |-> g, drawn |-> g.nodes # {}]

(***************************************************************************)
(* Module 3: Close Reading                                                 *)
(***************************************************************************)
\* The selectbox entry that stands for "no filter"; no place and no character
\* of the data carries this name.
All == <<"All">>

\* ["All"] + list(df_places['place'])
place_options(places) == <<All>> \o [i \in 1..Len(places) |-> places[i].place.v]

\* temp_df after the place filter.
filter_place(context, sel_place) ==
    IF sel_place # All
    THEN SelectRows(context, [i \in 1..Len(context) |->
            notna(context[i].place) /\ context[i].place.v = sel_place])
    ELSE context

\* sorted(list(set(temp_df['Character1'].dropna().unique())))
avail_chars(temp_df) ==
    SortStrs({temp_df[i].Character1.v :
                i \in {j \in 1..Len(temp_df) : notna(temp_df[j].Character1)}})

\* Mutant of filter_char: the secondary character matches too.
filter_char_either(temp_df, sel_char) ==
    IF sel_char # All
    THEN SelectRows(temp_df, [i \in 1..Len(temp_df) |->
            \/ notna(temp_df[i].Character1) /\ temp_df[i].Character1.v = sel_char
            \/ notna(temp_df[i].Character2) /\ temp_df[i].Character2.v = sel_char])
    ELSE temp_df

\* temp_df after the character filter.
filter_char(temp_df, sel_char) ==
    IF sel_char # All
    THEN SelectRows(temp_df, [i \in 1..Len(temp_df) |->
            notna(temp_df[i].Character1) /\ temp_df[i].Character1.v = sel_char])
    ELSE temp_df

\* Mutant of close_reading: the characters offered are read after the
\* character filter.
close_reading_late(context, sel_place, sel_char) ==
    LET temp_df == filter_char(filter_place(context, sel_place), sel_char)
    IN  [analysis_mode |-> "3. Close Reading",
         sel_place |-> sel_place,
         avail_chars |-> avail_chars(temp_df),
         sel_char |-> sel_char,
         temp_df |-> temp_df,
         snippets_found |-> Len(temp_df)]

\* The module's filters, the characters offered and "Snippets Found".
close_reading(context, sel_place, sel_char) ==
    LET temp_df == filter_char(filter_place(context, sel_place), sel_char)
    IN  [analysis_mode |-> "3. Close Reading",
         sel_place |-> sel_place,
         avail_chars |-> avail_chars(filter_place(context, sel_place)),
         sel_char |-> sel_char,
         temp_df |-> temp_df,
         snippets_found |-> Len(temp_df)]

(***************************************************************************)
(* The script                                                              *)
(***************************************************************************)
\* No module has run yet.
NoPage == [analysis_mode |-> "none"]

\* df_places, ..., error_msg = load_data()
LoadData ==
    /\ pc = "start"
    /\ LET r == load_data(files)
       IN  /\ df_places' = r.places
           /\ df_freq_chapter' = r.freq_chapter
           /\ df_freq_total' = r.freq_total
           /\ df_context' = r.context
           /\ error_msg' = r.error
    /\ pc' = "loaded"
    /\ UNCHANGED <<files, page>>

\* if error_msg: st.error(...); st.stop()
StopOnError ==
    /\ pc = "loaded"
    /\ error_msg # None
    /\ pc' = "stopped"
    /\ UNCHANGED <<files, df_places, df_freq_chapter, df_freq_total, df_context,
                   error_msg, page>>

\* The script got past the error check.
Running == pc = "loaded" /\ error_msg = None

Frame == UNCHANGED <<files, pc, df_places, df_freq_chapter, df_freq_total,
                     df_context, error_msg>>

TotalOverview ==
    /\ Running
    /\ page' = total_overview(df_freq_total.rows)
    /\ Frame

ChapterTimeline ==
    /\ Running
    /\ valid_chapters(df_freq_chapter.rows) # <<>>
    /\ \E selected_chap \in Range(valid_chapters(df_freq_chapter.rows)) :
          page' = chapter_timeline(df_freq_chapter.rows, selected_chap)
    /\ Frame

NoChapters ==
    /\ Running
    /\ valid_chapters(df_freq_chapter.rows) = <<>>
    /\ page' = no_chapters(df_freq_chapter.rows)
    /\ Frame

NetworkAnalysis ==
    /\ Running
    /\ page' = network_analysis(df_context.rows)
    /\ Frame

CloseReading ==
    /\ Running
    /\ \E sel_place \in Range(place_options(df_places.rows)) :
       \E sel_char \in {All} \cup Range(avail_chars(filter_place(df_context.rows, sel_place))) :
          page' = close_reading(df_context.rows, sel_place, sel_char)
    /\ Frame

(***************************************************************************)
(* Input files and specifications                                          *)
(***************************************************************************)
OkFile(rows) == [status |-> "ok", place_header |-> PlaceCol, rows |-> rows]

Coords == {NaN, Val(32)} \X {NaN, Val(118)}

PlaceRows(names) == {[place |-> Val(n), lat |-> c[1], lon |-> c[2]] : n \in names, c \in Coords}

UniqueNames(t) == \A i, j \in 1..Len(t) : t[i].place = t[j].place => i = j

\* Place tables with at most one row per name (the gazetteer's key), the
\* names ascending.
Gazetteers(names) ==
    {t \in SeqsUpTo(PlaceRows(names), Cardinality(names)) :
        \A i, j \in 1..Len(t) : i < j => StrLess(t[i].place.v, t[j].place.v)}

\* Chapters are positive and counts are never negative (mention counts);
\* per_1k_chars is kept in tenths.
Chapters == {1, 2}

Counts == {0, 1}

FreqRows(places, chapters, counts) ==
    [place : places, chapter : chapters, count : counts, per_1k_chars : {3}]

ContextRows(places, chars1, chars2) ==
    [chapter : {1}, place : places, Character1 : chars1, Character2 : chars2,
     Activity : {"visit"}, snippet : {"text"}]

Start ==
    /\ pc = "start"
    /\ df_places = None /\ df_freq_chapter = None /\ df_freq_total = None
    /\ df_context = None /\ error_msg = None
    /\ page = NoPage

\* The GIS module over every small chapter-frequency file.
MaxFreqRows == 2

InitGIS ==
    /\ \E p \in Gazetteers({Nanjing, Hangzhou}),
          f \in SeqsUpTo(FreqRows({Val(Nanjing), Val(Hangzhou), NaN}, Chapters, Counts),
                         MaxFreqRows) :
          files = [places |-> OkFile(p), freq |-> OkFile(f), context |-> OkFile(<<>>)]
    /\ Start

NextGIS == LoadData \/ TotalOverview \/ ChapterTimeline \/ NoChapters

SpecGIS == InitGIS /\ [][NextGIS]_vars

\* The network module over every small context file.
MaxCtxRows == 2

Geocoded(n) == [place |-> Val(n), lat |-> Val(32), lon |-> Val(118)]

\* The two-row context file of the graph example; an empty Character2 cell is
\* read as missing.
ExampleContext ==
    <<[chapter |-> 1, place |-> Val(Nanjing), Character1 |-> Val(FanJin),
       Character2 |-> NaN, Activity |-> "visit", snippet |-> "text"],
      [chapter |-> 2, place |-> Val(Nanjing), Character1 |-> Val(ZhouJin),
       Character2 |-> Val(FanJin), Activity |-> "visit", snippet |-> "text"]>>

InitNet ==
    /\ \E c \in SeqsUpTo(ContextRows({Val(Nanjing), Val(FanJin), Val(Blank), NaN},
                                      {Val(FanJin), Val(ZhouJin), Val(Nanjing), Val(PadNan), NaN},
                                      {NaN, Val(FanJin)}), MaxCtxRows)
                 \cup {ExampleContext} :
          files = [places |-> OkFile(<<Geocoded(Nanjing)>>), freq |-> OkFile(<<>>),
                   context |-> OkFile(c)]
    /\ Start

NextNet == LoadData \/ NetworkAnalysis

SpecNet == InitNet /\ [][NextNet]_vars

\* The close-reading module over every small context file.
InitRead ==
    /\ \E c \in SeqsUpTo(ContextRows({Val(Nanjing), Val(Hangzhou), NaN},
                                      {Val(FanJin), Val(ZhouJin), NaN},
                                      {NaN, Val(FanJin)}), MaxCtxRows) :
          files = [places |-> OkFile(<<Geocoded(Nanjing), Geocoded(Hangzhou)>>),
                   freq |-> OkFile(<<>>), context |-> OkFile(c)]
    /\ Start

NextRead == LoadData \/ CloseReading

SpecRead == InitRead /\ [][NextRead]_vars

\* The three joins over small tables, the place table with repeated names too.
MaxJoinRows == 2

InitJoin ==
    /\ \E p \in SeqsUpTo({Geocoded(Nanjing), Geocoded(Hangzhou),
                           [place |-> Val(Nanjing), lat |-> NaN, lon |-> NaN]}, MaxJoinRows),
          f \in SeqsUpTo(FreqRows({Val(Nanjing), Val(Hangzhou), NaN}, {1}, {1}), MaxJoinRows),
          c \in SeqsUpTo(ContextRows({Val(Nanjing), Val(Hangzhou), NaN}, {Val(FanJin)}, {NaN}),
                         MaxJoinRows) :
          files = [places |-> OkFile(p), freq |-> OkFile(f), context |-> OkFile(c)]
    /\ Start

NextJoin == LoadData

SpecJoin == InitJoin /\ [][NextJoin]_vars

\* The whole script over files that may be missing, unreadable, unparsable or
\* carry a padded or a wrong header.
Headers == {PlaceCol, <<" ", "place", " ">>, <<"name">>}

FileStates(tables) ==
    [status : {"ok"}, place_header : Headers, rows : tables]
    \cup [status : {"missing", "unreadable", "unparsable"}, place_header : {PlaceCol},
          rows : {<<>>}]

Init ==
    /\ files \in [places : FileStates({<<>>, <<Geocoded(Nanjing)>>}),
                  freq : FileStates({<<>>} \cup SeqsUpTo(FreqRows({Val(Nanjing)}, {1}, {1}), 1)),
                  context : FileStates({<<>>} \cup
                      SeqsUpTo(ContextRows({Val(Nanjing)}, {Val(FanJin)}, {NaN}), 1))]
    /\ Start

Next ==
    \/ LoadData
    \/ StopOnError
    \/ TotalOverview
    \/ ChapterTimeline
    \/ NoChapters
    \/ NetworkAnalysis
    \/ CloseReading

Spec == Init /\ [][Next]_vars

(***************************************************************************)
(* Claims about the GIS module (SpecGIS)                                   *)
(***************************************************************************)
Loaded == pc = "loaded" /\ error_msg = None

OnOverview ==
    page.analysis_mode = "1. GIS Spatial Analysis" /\ page.view_mode = "Total Overview"

OnTimeline ==
    page.analysis_mode = "1. GIS Spatial Analysis" /\ page.view_mode = "Chapter Timeline"

\* The place names that occur in the chapter-frequency file.
FreqPlaces == {files.freq.rows[i].place.v :
                 i \in {j \in 1..Len(files.freq.rows) : notna(files.freq.rows[j].place)}}

C2_OverviewNoNullCoords ==
    OnOverview =>
        /\ \A i \in 1..Len(page.map_data) :
              notna(page.map_data[i].lat) /\ notna(page.map_data[i].lon)
        /\ Range(page.map_data) \subseteq Range(df_freq_total.rows)
        /\ \A i \in 1..Len(df_freq_total.rows) :
              notna(df_freq_total.rows[i].lat) /\ notna(df_freq_total.rows[i].lon)
                  => df_freq_total.rows[i] \in Range(page.map_data)

\* C2 witness: an overview that returned one total row and dropped another,
\* one that lacks only its latitude.
C2_Witness ==
    /\ OnOverview
    /\ page.map_data # <<>>
    /\ \E i \in 1..Len(df_freq_total.rows) :
          /\ ~notna(df_freq_total.rows[i].lat)
          /\ notna(df_freq_total.rows[i].lon)

\* The chapters a query can be asked for: those of the file and one more.
AnyChapter == Chapters \cup {3}

\* C3: for every chapter that is not a valid chapter (count sum over the
\* whole per-chapter table > 0), the chapter query returns no row.
C3_InvalidChapterEmpty ==
    OnTimeline =>
        \A c \in AnyChapter \ Range(page.valid_chapters) :
            chapter_query(df_freq_chapter.rows, c) = <<>>

\* C3 witness: a timeline showing rows of a valid chapter while another
\* chapter of the table, with a geocoded row, is not valid.
C3_Witness ==
    /\ OnTimeline
    /\ page.map_data # <<>>
    /\ \E i \in 1..Len(df_freq_chapter.rows) :
          /\ df_freq_chapter.rows[i].chapter \notin Range(page.valid_chapters)
          /\ notna(df_freq_chapter.rows[i].lat)
          /\ notna(df_freq_chapter.rows[i].lon)

\* The returned rows that hold the largest count among the returned rows.
TopRows == {i \in 1..Len(page.map_data) :
              \A j \in 1..Len(page.map_data) : page.map_data[j].count <= page.map_data[i].count}

\* C10: the overview reports the number of returned rows and, when there
\* are any, the record with the largest count among the returned rows, a tie
\* going to the first of them in the order of the rows (the order of the
\* total table, which is ascending place name, so to the least name).  With
\* no returned row it reports no top record.
C10_TopHubFirstMax ==
    OnOverview =>
        /\ page.n_locations = Len(page.map_data)
        /\ page.map_data = <<>> => page.top_place = None
        /\ page.map_data # <<>> =>
              \E i \in TopRows :
                  /\ page.top_place = page.map_data[i].place
                  /\ \A j \in TopRows : j >= i
                  /\ \A j \in TopRows \ {i} :
                        StrLess(page.top_place.v, page.map_data[j].place.v)

\* C10 witness: two returned rows share the largest count and the first of
\* them is reported; the chapter file lists the other place first.
C10_Witness ==
    /\ OnOverview
    /\ Len(page.map_data) >= 2
    /\ page.map_data[1].count = page.map_data[2].count
    /\ page.map_data[1].count > 0
    /\ page.top_place = page.map_data[1].place
    /\ files.freq.rows[1].place = page.map_data[2].place

\* C10 witness of the empty case: nothing geocoded, no top record.
C10_EmptyWitness ==
    /\ OnOverview
    /\ page.map_data = <<>>
    /\ df_freq_total.rows # <<>>

(***************************************************************************)
(* Claims about the network module (SpecNet)                               *)
(***************************************************************************)
OnNetwork == page.analysis_mode = "2. Network Analysis"

\* A name that can end an edge: not empty after trimming and not "nan".
Usable(name) == name # <<>> /\ name # <<"nan">>

\* The (character, place) pairs, trimmed, that the rows with a primary
\* character and a place link: by the primary character when it is usable and
\* the place is not empty, by the secondary character when it is present and
\* usable.
LinkedPairs ==
    LET rows == df_context.rows
        ok == {i \in 1..Len(rows) : notna(rows[i].Character1) /\ notna(rows[i].place)}
    IN  {<<strip(str(rows[i].Character1)), strip(str(rows[i].place))>> :
            i \in {j \in ok : /\ Usable(strip(str(rows[j].Character1)))
                               /\ strip(str(rows[j].place)) # <<>>}}
        \cup
        {<<strip(str(rows[i].Character2)), strip(str(rows[i].place))>> :
            i \in {j \in ok : /\ notna(rows[j].Character2)
                               /\ Usable(strip(str(rows[j].Character2)))}}

ExampleGraph ==
    [nodes |-> {Nanjing, FanJin, ZhouJin},
     edges |-> {{FanJin, Nanjing}, {ZhouJin, Nanjing}}]

\* C5 as stated: the graph has as many edges as there are distinct linked
\* (character, place) pairs, and the example yields 3 nodes and 2 edges.
C5_EdgesEqualPairs ==
    OnNetwork =>
        /\ Cardinality(page.G.edges) = Cardinality(LinkedPairs)
        /\ files.context.rows = ExampleContext => page.G = ExampleGraph

\* C5 amended: the graph is simple and undirected over untyped names: it
\* holds exactly one edge per linked pair, whatever the number of rows that
\* link it, and the pairs (c, p) and (p, c) are one edge, so the number of
\* edges is the number of distinct unordered linked pairs; the example
\* yields exactly the 3 nodes and the 2 edges.
C5_SimpleGraph ==
    OnNetwork =>
        /\ page.G.edges = {{pr[1], pr[2]} : pr \in LinkedPairs}
        /\ Cardinality(page.G.edges) <= Cardinality(LinkedPairs)
        /\ (\A pr \in LinkedPairs : <<pr[2], pr[1]>> \notin LinkedPairs \/ pr[1] = pr[2])
              => Cardinality(page.G.edges) = Cardinality(LinkedPairs)
        /\ files.context.rows = ExampleContext => page.G = ExampleGraph

\* C5 witness: the graph of the example, where Fan Jin is linked to Nanjing
\* by two rows, once as primary and once as secondary character.
C5_Witness ==
    /\ OnNetwork
    /\ files.context.rows = ExampleContext
    /\ Cardinality(page.G.edges) = 2

\* C9: every edge comes from a row that has a primary character and a place,
\* both usable (the character not empty after trimming and not "nan", the
\* place not empty), and joins that row's usable primary or secondary
\* character to that row's place name.
C9_EdgesNeedPrimaryAndPlace ==
    OnNetwork =>
        \A e \in page.G.edges :
            \E i \in 1..Len(df_context.rows) :
                LET row == df_context.rows[i]
                    place == strip(str(row.place))
                IN  /\ notna(row.Character1) /\ notna(row.place)
                    /\ Usable(strip(str(row.Character1)))
                    /\ place # <<>>
                    /\ \/ e = {strip(str(row.Character1)), place}
                       \/ /\ notna(row.Character2)
                          /\ Usable(strip(str(row.Character2)))
                          /\ e = {strip(str(row.Character2)), place}

(***************************************************************************)
(* Claims about the close-reading module (SpecRead)                        *)
(***************************************************************************)
OnReading == page.analysis_mode = "3. Close Reading"

PlaceIs(r, P) == P = All \/ (notna(r.place) /\ r.place.v = P)

PrimaryIs(r, C) == C = All \/ (notna(r.Character1) /\ r.Character1.v = C)

\* C4: the rows returned for place P and character C are exactly the context
\* rows whose place is P and whose primary character is C, in order, and
\* each of them is also returned for place P alone.
C4_FiltersConjoin ==
    OnReading =>
        LET ctx == df_context.rows
            P == page.sel_place
            C == page.sel_char
        IN  /\ page.temp_df =
                  SelectRows(ctx, [i \in 1..Len(ctx) |-> PlaceIs(ctx[i], P) /\ PrimaryIs(ctx[i], C)])
            /\ page.snippets_found = Len(page.temp_df)
            /\ Range(page.temp_df) \subseteq Range(close_reading(ctx, P, All).temp_df)

\* C4 witness: both filters set, a row returned, and a row of the place left
\* out although its secondary character is the chosen one.
C4_Witness ==
    /\ OnReading
    /\ page.sel_place # All /\ page.sel_char # All
    /\ page.temp_df # <<>>
    /\ \E i \in 1..Len(df_context.rows) :
          /\ PlaceIs(df_context.rows[i], page.sel_place)
          /\ df_context.rows[i].Character2 = Val(page.sel_char)
          /\ df_context.rows[i] \notin Range(page.temp_df)

\* C8: the characters offered are exactly the distinct present primary
\* characters of the context rows that pass the place filter, whatever the
\* chosen character; with no place filter, of all context rows.
C8_AvailChars ==
    OnReading =>
        LET ctx == df_context.rows
        IN  /\ Range(page.avail_chars) =
                  {ctx[i].Character1.v :
                      i \in {j \in 1..Len(ctx) : /\ notna(ctx[j].Character1)
                                                  /\ PlaceIs(ctx[j], page.sel_place)}}
            /\ Len(page.avail_chars) = Cardinality(Range(page.avail_chars))

\* C8 witness: a place and a character are chosen and two characters are
\* still offered.
C8_Witness ==
    /\ OnReading
    /\ page.sel_place # All /\ page.sel_char # All
    /\ Len(page.avail_chars) >= 2

(***************************************************************************)
(* Claims about the joins (SpecJoin) and about loading (Spec)              *)
(***************************************************************************)
\* A row without its coordinates.
NoCoords(r) == [k \in DOMAIN r \ {"lat", "lon"} |-> r[k]]

\* Whether the place table holds a row with this key.
Known(place) == \E i \in 1..Len(files.places.rows) : files.places.rows[i].place = place

\* joined has the rows of input, in order, each with coordinates added, and
\* missing coordinates where the place table has no row for the key.
KeepsRows(joined, input) ==
    /\ Len(joined) = Len(input)
    /\ \A i \in 1..Len(joined) :
          /\ NoCoords(joined[i]) = input[i]
          /\ ~Known(input[i].place) => joined[i].lat = NaN /\ joined[i].lon = NaN

\* C6: with unique place names in the place table, the joined per-chapter,
\* total and context tables have exactly the rows of their inputs, and a
\* row whose place has no match is kept with both coordinates missing.
C6_JoinKeepsRows ==
    (Loaded /\ UniqueNames(files.places.rows)) =>
        /\ KeepsRows(df_freq_chapter.rows, files.freq.rows)
        /\ KeepsRows(df_freq_total.rows, groupby_sum(files.freq.rows))
        /\ KeepsRows(df_context.rows, files.context.rows)

\* C6 witness: a per-chapter row and a context row whose place names match
\* nothing in the place table, and a total row that has a match.
C6_Witness ==
    /\ Loaded /\ UniqueNames(files.places.rows)
    /\ \E i \in 1..Len(files.freq.rows) :
          notna(files.freq.rows[i].place) /\ ~Known(files.freq.rows[i].place)
    /\ \E i \in 1..Len(files.context.rows) :
          notna(files.context.rows[i].place) /\ ~Known(files.context.rows[i].place)
    /\ \E i \in 1..Len(df_freq_total.rows) : Known(df_freq_total.rows[i].place)

FileFails(f) == f.status # "ok" \/ strip(f.place_header) # PlaceCol

\* C7: loading is all or nothing.  When one of the three files is missing,
\* unreadable, unparsable or lacks its place column, all four tables are None,
\* there is one error message and no module ever runs; when none fails, the
\* message is None and the four tables are present.
C7_LoadAllOrNothing ==
    pc # "start" =>
        IF FileFails(files.places) \/ FileFails(files.freq) \/ FileFails(files.context)
        THEN /\ df_places = None /\ df_freq_chapter = None
             /\ df_freq_total = None /\ df_context = None
             /\ error_msg # None
             /\ page = NoPage
        ELSE /\ error_msg = None
             /\ df_places # None /\ df_freq_chapter # None
             /\ df_freq_total # None /\ df_context # None

\* C7 witness: the session stopped on a load in which only the third file
\* failed.
C7_Witness ==
    /\ pc = "stopped"
    /\ ~FileFails(files.places) /\ ~FileFails(files.freq)
    /\ files.context.status = "unparsable"
    /\ files.places.rows # <<>>

====
